---- MODULE Spec2Model ----
(***************************************************************************)
(* PlanExecutor (src/plan/executor.rs): the per-repository pipeline        *)
(*   clone_repository -> ensure_branch -> process_operations               *)
(*     -> commit -> push -> open_pr                                        *)
(* modelled as a state machine over a working copy, its remote and the     *)
(* pull-request provider.  One action per external command or file         *)
(* operation; a run may fail at any command or be interrupted between two  *)
(* commands, and process() may be run again on what the last run left.     *)
(***************************************************************************)
EXTENDS Integers, Sequences, FiniteSets, TLC

\* ------------------------------------------------------------------ bounds
MaxRuns == 2   \* runs of process() in one behaviour
MaxHist == 2   \* commits on the remote default branch before the first run

\* ------------------------------------------------------------------ values
None == "none"
NL == "\n"

Files == {1, 2}                \* tracked files of the repository, in glob order
Text == {0, 1, 2}              \* file contents
Trees == [Files -> Text]

\* the paths a glob can match in the working copy, in glob order: the two
\* files, a directory, a symbolic link to file 1 and one to the directory
Entries == Files \cup {3, 4, 5}

Kind(entry) ==
    CASE entry \in Files -> "file"
      [] entry = 3      -> "directory"
      [] OTHER          -> "symlink"

\* where a symbolic link points
LinkTarget(entry) == IF entry = 4 THEN 1 ELSE 3

\* the file the operating system opens for a path: links are followed
Resolve(entry) == IF Kind(entry) = "symlink" THEN LinkTarget(entry) ELSE entry

\* Repository { name, default_branch } handed to PlanExecutor::new
Repository == [name |-> "repo", default_branch |-> "main"]

\* the repository of another executor of the same batch
SiblingRepository == [name |-> "other", default_branch |-> "main"]

\* the folder every executor of the batch is given
RepositoriesFolder == "root"

\* faulty variant: the working copy's path does not depend on the repository
directory_without_name(repositories_folder, name) == <<repositories_folder, "repos">>

\* PlanExecutor::new: repositories_folder.join("repos").join(&repository.name)
directory(repositories_folder, name) == <<repositories_folder, "repos", name>>

\* the plan's branch, and a branch left checked out by a run of another plan
PlanBranch == "fix"
OtherBranch == "old"

\* ------------------------------------------------------------------ processors
\* Processor::process(&str): pure and total.  "upper" behaves like the test's
\* True -> true replacement (idempotent), "append" keeps changing its own
\* output, "toggle" undoes itself, "id" never changes anything.
process(processor, text) ==
    CASE processor = "upper"  -> IF text = 0 THEN 1 ELSE text
      [] processor = "append" -> IF text < 2 THEN text + 1 ELSE 0
      [] processor = "toggle" -> IF text = 0 THEN 1 ELSE IF text = 1 THEN 0 ELSE text
      [] OTHER                -> text

\* FileOperation { pattern, processors }; the pattern is given by the set of
\* working-copy files it matches
Op(pattern, processors) == [pattern |-> pattern, processors |-> processors]

\* the lists of file operations a plan is drawn from
PlanOperations ==
    { << Op({1, 2}, <<"upper">>) >>,
      << Op({}, <<"upper">>), Op({1, 2}, <<"id">>) >>,
      << Op({1, 3, 4, 5}, <<"append">>) >>,
      << Op({1}, <<"upper", "append">>) >>,
      << Op({1, 2}, <<"toggle">>), Op({1, 2}, <<"toggle">>) >>,
      << Op({2}, <<"upper">>), Op({1, 2}, <<"append", "upper">>) >> }

\* commit messages are strings; NL separates lines
PlanMessages == { <<"f">> }
TipMessages == { <<"x">>, <<"f">>, <<"f", "x">>, <<"f", NL, "x">> }
OldMessages == { <<"x">>, <<"f">> }

\* the content of the default branch before the first run: file 1 still to be
\* transformed, file 2 already holding what "upper" produces
InitTrees == { [f \in Files |-> IF f = 1 THEN 0 ELSE 1] }

\* ------------------------------------------------------------------ helpers
Tip(h) == h[Len(h)]

IsPrefix(s, t) == Len(s) <= Len(t) /\ SubSeq(t, 1, Len(s)) = s

\* a function extended or overwritten at one key
Put(f, k, v) == [x \in DOMAIN f \cup {k} |-> IF x = k THEN v ELSE f[x]]

NoBranches == [b \in {} |-> << >>]

RECURSIVE Sorted(_)
Sorted(S) ==
    IF S = {} THEN << >>
    ELSE LET m == CHOOSE x \in S : \A y \in S : x <= y
         IN  <<m>> \o Sorted(S \ {m})

\* ------------------------------------------------------------------ state
VARIABLES
    plan,           \* Arc<Plan>: never assigned after construction
    exists,         \* self.directory exists on disk
    cur,            \* the branch checked out in the working copy
    local,          \* local branches: name -> history (oldest commit first)
    wt,             \* working tree: content of every tracked file
    remote,         \* branches of origin: name -> history
    prOpen,         \* the provider has an open pull request for the plan's branch
    prCalls,        \* arguments of every open_pr call made so far
    pc,             \* position of process()
    opIdx,          \* process_operations: index of the current operation
    files,          \* process_files: matched files still to process
    files_changed,  \* the flag accumulated by process_operations/process_files
    processed,      \* the files process_file has handled in the current run
    cmds,           \* git commands and provider calls issued by the current run
    result,         \* outcome of the current or last run
    error,          \* message of the error process() returned
    run,            \* number of runs started
    pre,            \* the repository as the current run found it
    prevOk,         \* the run before the current one returned Ok
    done,           \* successes so far: commits, branch creations, open_pr
    sibling         \* the other executor of the batch: its position, result,
                    \* working copy and pull request

vars == << plan, exists, cur, local, wt, remote, prOpen, prCalls, pc, opIdx,
           files, files_changed, processed, cmds, result, error, run, pre,
           prevOk, done, sibling >>

\* everything but the sibling: this executor, its repository and its plan
own == << plan, exists, cur, local, wt, remote, prOpen, prCalls, pc, opIdx,
          files, files_changed, processed, cmds, result, error, run, pre,
          prevOk, done >>

repo == << exists, cur, local, wt, remote, prOpen, prCalls, done >>
ops == << opIdx, files, files_changed, processed >>
meta == << plan, run, pre, prevOk, sibling >>

Snapshot == [exists |-> exists, cur |-> cur, local |-> local, wt |-> wt,
             remote |-> remote]

\* ------------------------------------------------------------------ initial states
\* histories the remote default branch can have before the first run
InitHistories ==
    { h \in UNION { [1..n -> [msg : TipMessages, tree : InitTrees]] : n \in 1..MaxHist } :
        /\ \A i \in 1..Len(h) : h[i].tree = h[1].tree
        /\ \A i \in 1..(Len(h) - 1) : h[i].msg \in OldMessages /\ h[i].msg = h[1].msg }

\* the plans: one with a pull-request title and no body, one with a body and no
\* title, for each list of operations
Plans ==
    { p \in [ branch_name : {PlanBranch},
              git_message : PlanMessages,
              pull_request_title : {None, "T"},
              pull_request_body : {None, "B"},
              file_operations : PlanOperations ] :
        (p.pull_request_title = None) # (p.pull_request_body = None) }

\* a tracked file modified and not committed
Dirty(tree) == [tree EXCEPT ![1] = 2]

Init ==
    /\ plan \in Plans
    /\ \E h \in InitHistories :
         /\ remote = [b \in {Repository.default_branch} |-> h]
         /\ \/ /\ exists = FALSE
               /\ cur = ""
               /\ local = NoBranches
               /\ wt = Tip(h).tree
            \/ \E stale \in {s \in BOOLEAN : s => Len(h) > 1},
                  c \in {Repository.default_branch, OtherBranch},
                  hasPlanBranch \in BOOLEAN, dirty \in BOOLEAN :
                 /\ hasPlanBranch => c = OtherBranch
                 /\ LET mine == IF stale THEN SubSeq(h, 1, Len(h) - 1) ELSE h
                        names == {Repository.default_branch, c}
                                   \cup (IF hasPlanBranch THEN {PlanBranch} ELSE {})
                    IN  /\ exists = TRUE
                        /\ cur = c
                        /\ local = [b \in names |-> mine]
                        /\ wt = IF dirty THEN Dirty(Tip(mine).tree)
                                ELSE Tip(mine).tree
    /\ prOpen = FALSE
    /\ prCalls = << >>
    /\ pc = "idle"
    /\ opIdx = 1
    /\ files = << >>
    /\ files_changed = FALSE
    /\ processed = << >>
    /\ cmds = << >>
    /\ result = "none"
    /\ error = ""
    /\ run = 0
    /\ pre = [exists |-> exists, cur |-> cur, local |-> local, wt |-> wt,
              remote |-> remote]
    /\ prevOk = FALSE
    /\ done = [commit |-> 0, branch |-> 0, pr |-> 0]
    /\ sibling = [pc |-> "idle", result |-> "none", exists |-> FALSE, text |-> 0,
                  pr |-> FALSE]

\* ------------------------------------------------------------------ process()
Issue(argv) == cmds' = Append(cmds, argv)

Return(res, err) == pc' = "done" /\ result' = res /\ error' = err

Goto(p) == pc' = p /\ UNCHANGED << result, error >>

\* the caller invokes process()
StartRun ==
    /\ pc \in {"idle", "done"}
    /\ run < MaxRuns
    /\ run' = run + 1
    /\ pre' = Snapshot
    /\ prevOk' = (result = "ok")
    /\ pc' = "clone"
    /\ result' = "running"
    /\ error' = ""
    /\ cmds' = << >>
    /\ opIdx' = 1
    /\ files' = << >>
    /\ files_changed' = FALSE
    /\ processed' = << >>
    /\ UNCHANGED << plan, repo, sibling >>

\* the task is cancelled or the process dies between two commands
Interrupt ==
    /\ pc \notin {"idle", "done"}
    /\ Return("killed", "")
    /\ UNCHANGED << meta, repo, ops, cmds >>

\* clone_repository
CloneArgs == <<"git", "clone", Repository.name>>

\* faulty variant: with the working copy present, process() goes straight to
\* the file operations without reconciling the branch
clone_repository_skips_branch ==
    /\ pc = "clone"
    /\ \/ /\ exists
          /\ Goto("list")
          /\ UNCHANGED << repo, cmds >>
       \/ /\ ~exists
          /\ Issue(CloneArgs)
          /\ exists' = TRUE
          /\ cur' = Repository.default_branch
          /\ local' = [b \in {Repository.default_branch} |->
                          remote[Repository.default_branch]]
          /\ wt' = Tip(remote[Repository.default_branch]).tree
          /\ Goto("branch")
          /\ UNCHANGED << remote, prOpen, prCalls, done >>
       \/ /\ ~exists
          /\ Issue(CloneArgs)
          /\ Return("err", "failed to clone repository")
          /\ UNCHANGED repo
    /\ UNCHANGED << meta, ops >>

clone_repository ==
    /\ pc = "clone"
    /\ \/ /\ exists
          /\ Goto("branch")
          /\ UNCHANGED << repo, cmds >>
       \/ /\ ~exists
          /\ Issue(CloneArgs)
          /\ exists' = TRUE
          /\ cur' = Repository.default_branch
          /\ local' = [b \in {Repository.default_branch} |->
                          remote[Repository.default_branch]]
          /\ wt' = Tip(remote[Repository.default_branch]).tree
          /\ Goto("branch")
          /\ UNCHANGED << remote, prOpen, prCalls, done >>
       \/ /\ ~exists
          /\ Issue(CloneArgs)
          /\ Return("err", "failed to clone repository")
          /\ UNCHANGED repo
    /\ UNCHANGED << meta, ops >>

\* faulty variant: the comparison with plan.branch_name is lost and the branch is always
\* re-derived
ensure_branch_always_reset ==
    /\ pc = "branch"
    /\ Issue(<<"git", "branch", "--show-current">>)
    /\ \/ Goto("reset")
       \/ Return("err", "failed to list branch")
    /\ UNCHANGED << meta, repo, ops >>

\* ensure_branch: git branch --show-current, compared with plan.branch_name
ensure_branch ==
    /\ pc = "branch"
    /\ Issue(<<"git", "branch", "--show-current">>)
    /\ \/ /\ cur = plan.branch_name
          /\ Goto("list")
       \/ /\ cur # plan.branch_name
          /\ Goto("reset")
       \/ Return("err", "failed to list branch")
    /\ UNCHANGED << meta, repo, ops >>

\* ensure_branch: git reset --hard
ensure_branch_reset ==
    /\ pc = "reset"
    /\ Issue(<<"git", "reset", "--hard">>)
    /\ \/ /\ wt' = Tip(local[cur]).tree
          /\ Goto("checkout")
       \/ /\ Return("err", "failed to reset branch")
          /\ UNCHANGED wt
    /\ UNCHANGED << meta, ops, exists, cur, local, remote, prOpen, prCalls, done >>

\* ensure_branch: git checkout <default branch>
ensure_branch_checkout ==
    /\ pc = "checkout"
    /\ Issue(<<"git", "checkout", Repository.default_branch>>)
    /\ \/ /\ cur' = Repository.default_branch
          /\ wt' = Tip(local[Repository.default_branch]).tree
          /\ Goto("pull")
       \/ /\ Return("err", "failed to checkout default branch")
          /\ UNCHANGED << cur, wt >>
    /\ UNCHANGED << meta, ops, exists, local, remote, prOpen, prCalls, done >>

\* number of leading commits two histories share
CommonPrefixLen(mine, theirs) ==
    CHOOSE n \in 0..Len(mine) :
        /\ IsPrefix(SubSeq(mine, 1, n), theirs)
        /\ \A m \in (n + 1)..Len(mine) : ~IsPrefix(SubSeq(mine, 1, m), theirs)

\* faulty variant: the pull does not bring in the upstream commits
PullNothing(mine, theirs) == mine

\* what git pull -r leaves on the checked-out branch: the upstream history, with
\* the local commits the upstream lacks replayed on top
PullRebase(mine, theirs) ==
    theirs \o SubSeq(mine, CommonPrefixLen(mine, theirs) + 1, Len(mine))

\* ensure_branch: git pull -r
ensure_branch_pull ==
    /\ pc = "pull"
    /\ Issue(<<"git", "pull", "-r">>)
    /\ \/ LET pulled == PullRebase(local[cur], remote[cur])
          IN  /\ local' = [local EXCEPT ![cur] = pulled]
              /\ wt' = Tip(pulled).tree
              /\ Goto("new")
       \/ /\ Return("err", "failed to pull changes")
          /\ UNCHANGED << local, wt >>
    /\ UNCHANGED << meta, ops, exists, cur, remote, prOpen, prCalls, done >>

\* ensure_branch: git checkout -b <plan.branch_name>; git refuses to create a
\* branch that already exists
ensure_branch_new ==
    /\ pc = "new"
    /\ Issue(<<"git", "checkout", "-b", plan.branch_name>>)
    /\ \/ /\ plan.branch_name \notin DOMAIN local
          /\ local' = Put(local, plan.branch_name, local[cur])
          /\ cur' = plan.branch_name
          /\ done' = [done EXCEPT !.branch = @ + 1]
          /\ Goto("list")
       \/ /\ Return("err", "failed to checkout new branch")
          /\ UNCHANGED << local, cur, done >>
    /\ UNCHANGED << meta, ops, exists, wt, remote, prOpen, prCalls >>

\* ------------------------------------------------------------------ file operations
\* Path::is_file: true of a regular file, and of a symbolic link that leads to
\* one (the link is followed)
is_file(entry) == Kind(Resolve(entry)) = "file"

\* list_files: the matches of the pattern for which is_file holds, in glob's
\* (alphabetical) order
list_files(pattern) == Sorted({entry \in pattern \cap Entries : is_file(entry)})

\* faulty variant: the chain is applied from its last processor to its first
RECURSIVE new_text_reversed(_, _)
new_text_reversed(processors, text) ==
    IF processors = << >> THEN text
    ELSE new_text_reversed(SubSeq(processors, 1, Len(processors) - 1),
                           process(processors[Len(processors)], text))

\* the loop of process_file: every processor consumes the previous one's output
RECURSIVE new_text(_, _)
new_text(processors, text) ==
    IF processors = << >> THEN text
    ELSE new_text(Tail(processors), process(Head(processors), text))

\* faulty variant: the comparison is lost and every file counts as changed
is_changed_always(old, new) == TRUE

\* process_file's comparison of the text read with the chain's final text
is_changed(old, new) == old # new

\* process_files over a list of files: the tree and the flag it leaves
RECURSIVE process_files(_, _, _)
process_files(fs, processors, st) ==
    IF fs = << >> THEN st
    ELSE LET old == st.tree[Resolve(Head(fs))]
             new == new_text(processors, old)
         IN  process_files(Tail(fs), processors,
                 [tree |-> [st.tree EXCEPT ![Resolve(Head(fs))] = new],
                  changed |-> st.changed \/ is_changed(old, new)])

\* process_operations over a list of operations, without failures
RECURSIVE all_operations(_, _)
all_operations(operations, st) ==
    IF operations = << >> THEN st
    ELSE all_operations(Tail(operations),
             process_files(list_files(Head(operations).pattern),
                           Head(operations).processors, st))

\* faulty variant: the flag is combined with a short-circuiting "or", so that
\* an operation after the first change is not carried out
process_operation_short_circuit ==
    /\ pc = "list"
    /\ opIdx <= Len(plan.file_operations)
    /\ \/ LET matched == IF files_changed
                          THEN << >>
                          ELSE list_files(plan.file_operations[opIdx].pattern)
          IN  /\ files' = matched
              /\ IF matched = << >>
                 THEN opIdx' = opIdx + 1 /\ Goto("list")
                 ELSE opIdx' = opIdx /\ Goto("file")
       \/ /\ Return("err", "glob error")
          /\ UNCHANGED << opIdx, files >>
    /\ UNCHANGED << meta, repo, files_changed, processed, cmds >>

\* process_operations reaches the next operation: process_operation lists its files
process_operation ==
    /\ pc = "list"
    /\ opIdx <= Len(plan.file_operations)
    /\ \/ LET matched == list_files(plan.file_operations[opIdx].pattern)
          IN  /\ files' = matched
              /\ IF matched = << >>
                 THEN opIdx' = opIdx + 1 /\ Goto("list")
                 ELSE opIdx' = opIdx /\ Goto("file")
       \/ /\ Return("err", "glob error")
          /\ UNCHANGED << opIdx, files >>
    /\ UNCHANGED << meta, repo, files_changed, processed, cmds >>

\* what process_file did with a file: the text read, the chain's final text,
\* whether fs::write was called and the value returned
Processed(file, old, new, wrote, changed) ==
    [op |-> opIdx, file |-> file, old |-> old, new |-> new, wrote |-> wrote,
     changed |-> changed]

\* process_files hands the next matched file to process_file
process_file ==
    /\ pc = "file"
    /\ files # << >>
    /\ LET file == Head(files)
           old_text == wt[Resolve(file)]
           final == new_text(plan.file_operations[opIdx].processors, old_text)
           next == /\ files' = Tail(files)
                   /\ IF Tail(files) = << >>
                      THEN opIdx' = opIdx + 1 /\ Goto("list")
                      ELSE opIdx' = opIdx /\ Goto("file")
       IN  \/ /\ ~is_changed(old_text, final)
              /\ processed' = Append(processed, Processed(file, old_text, final, FALSE, FALSE))
              /\ next
              /\ UNCHANGED << wt, files_changed >>
           \/ /\ is_changed(old_text, final)
              /\ wt' = [wt EXCEPT ![Resolve(file)] = final]
              /\ processed' = Append(processed, Processed(file, old_text, final, TRUE, TRUE))
              /\ files_changed' = TRUE
              /\ next
           \/ /\ Return("err", "io error")
              /\ UNCHANGED << wt, ops >>
           \/ /\ is_changed(old_text, final)
              /\ Return("err", "io error")
              /\ UNCHANGED << wt, ops >>
    /\ UNCHANGED << meta, cmds, exists, cur, local, remote, prOpen, prCalls, done >>

\* faulty variant: process() ignores the flag and always goes on to commit
process_operations_always_publish ==
    /\ pc = "list"
    /\ opIdx > Len(plan.file_operations)
    /\ Goto("log")
    /\ UNCHANGED << meta, repo, ops, cmds >>

\* process(): the test of process_operations' result
process_operations ==
    /\ pc = "list"
    /\ opIdx > Len(plan.file_operations)
    /\ \/ /\ ~files_changed
          /\ Return("ok", "")
       \/ /\ files_changed
          /\ Goto("log")
    /\ UNCHANGED << meta, repo, ops, cmds >>

\* ------------------------------------------------------------------ commit, push
\* stdout of git log --format=%B -n 1: the message of the latest commit and a
\* line end
last_commit == Tip(local[cur]).msg \o <<NL>>

\* faulty variant: the guard compares the whole output instead of its first line
commit_done_exact(log, git_message) == log = git_message \o <<NL>>

\* faulty variant: the guard never recognises the plan's commit
commit_never_done(log, git_message) == FALSE

\* commit's guard: last_commit.starts_with(format!("{}\n", git_message))
commit_already_done(log, git_message) == IsPrefix(git_message \o <<NL>>, log)

\* faulty variant: the guard is dropped and git commit always runs
commit_log_unguarded ==
    /\ pc = "log"
    /\ Issue(<<"git", "log", "--format=%B", "-n", "1">>)
    /\ \/ Goto("commit")
       \/ Return("err", "failed to run command")
    /\ UNCHANGED << meta, repo, ops >>

\* commit: git log --format=%B -n 1 and the guard
commit_log ==
    /\ pc = "log"
    /\ Issue(<<"git", "log", "--format=%B", "-n", "1">>)
    /\ \/ /\ commit_already_done(last_commit, plan.git_message)
          /\ Goto("push")
       \/ /\ ~commit_already_done(last_commit, plan.git_message)
          /\ Goto("commit")
       \/ Return("err", "failed to run command")
    /\ UNCHANGED << meta, repo, ops >>

\* commit: git commit -a -m <git_message>; git exits with 1 when no tracked
\* file differs from the latest commit
commit ==
    /\ pc = "commit"
    /\ Issue(<<"git", "commit", "-a", "-m">>)
    /\ \/ /\ wt # Tip(local[cur]).tree
          /\ local' = [local EXCEPT ![cur] =
                          Append(@, [msg |-> plan.git_message, tree |-> wt])]
          /\ done' = [done EXCEPT !.commit = @ + 1]
          /\ Goto("push")
       \/ /\ Return("err", "failed to commit changes")
          /\ UNCHANGED << local, done >>
    /\ UNCHANGED << meta, ops, exists, cur, wt, remote, prOpen, prCalls >>

\* faulty variant: a failed push is noted and the run goes on to the pull request
push_ignores_failure ==
    /\ pc = "push"
    /\ Issue(<<"git", "push", "-u", "-f", "origin", plan.branch_name>>)
    /\ \/ /\ plan.branch_name \in DOMAIN local
          /\ remote' = Put(remote, plan.branch_name, local[plan.branch_name])
          /\ Goto("pr")
       \/ /\ pc' = "pr"
          /\ error' = "failed to push changes"
          /\ UNCHANGED << result, remote >>
    /\ UNCHANGED << meta, ops, exists, cur, local, wt, prOpen, prCalls, done >>

\* faulty variant: the default branch is pushed instead of the plan's branch
push_default_branch ==
    /\ pc = "push"
    /\ Issue(<<"git", "push", "-u", "-f", "origin", plan.branch_name>>)
    /\ \/ /\ remote' = Put(remote, Repository.default_branch,
                           local[Repository.default_branch])
          /\ Goto("pr")
       \/ /\ Return("err", "failed to push changes")
          /\ UNCHANGED remote
    /\ UNCHANGED << meta, ops, exists, cur, local, wt, prOpen, prCalls, done >>

\* push: git push -u -f origin <plan.branch_name>
push ==
    /\ pc = "push"
    /\ Issue(<<"git", "push", "-u", "-f", "origin", plan.branch_name>>)
    /\ \/ /\ plan.branch_name \in DOMAIN local
          /\ remote' = Put(remote, plan.branch_name, local[plan.branch_name])
          /\ Goto("pr")
       \/ /\ Return("err", "failed to push changes")
          /\ UNCHANGED remote
    /\ UNCHANGED << meta, ops, exists, cur, local, wt, prOpen, prCalls, done >>

\* ------------------------------------------------------------------ pull request
\* Provider::is_pr_open(repository name, branch)
is_pr_open(name, branch) == prOpen

\* the query as the run's log records it: the call and its answer
Query(answer) == <<"is_pr_open", Repository.name, plan.branch_name, answer>>

\* faulty variant: the answer of is_pr_open is ignored
open_pr_unguarded ==
    /\ pc = "pr"
    /\ \/ /\ is_pr_open(Repository.name, plan.branch_name)
          /\ Issue(Query("true"))
          /\ Goto("open")
       \/ /\ ~is_pr_open(Repository.name, plan.branch_name)
          /\ Issue(Query("false"))
          /\ Goto("open")
       \/ /\ Issue(Query("error"))
          /\ Return("err", "provider error")
    /\ UNCHANGED << meta, repo, ops >>

\* open_pr: the query that guards the call
open_pr_check ==
    /\ pc = "pr"
    /\ \/ /\ is_pr_open(Repository.name, plan.branch_name)
          /\ Issue(Query("true"))
          /\ Return("ok", "")
       \/ /\ ~is_pr_open(Repository.name, plan.branch_name)
          /\ Issue(Query("false"))
          /\ Goto("open")
       \/ /\ Issue(Query("error"))
          /\ Return("err", "provider error")
    /\ UNCHANGED << meta, repo, ops >>

\* faulty variant: the plan's pull-request title is ignored
pr_title_from_message == plan.git_message

\* open_pr: the title falls back to the commit message
pr_title == IF plan.pull_request_title # None
            THEN <<plan.pull_request_title>>
            ELSE plan.git_message

\* the arguments open_pr passes to Provider::open_pr
pr_arguments ==
    [ repository |-> Repository.name,
      base |-> Repository.default_branch,
      head |-> plan.branch_name,
      title |-> pr_title,
      body |-> plan.pull_request_body ]

\* open_pr: Provider::open_pr
open_pr ==
    /\ pc = "open"
    /\ Issue(<<"open_pr">>)
    /\ prCalls' = Append(prCalls, pr_arguments)
    /\ \/ /\ prOpen' = TRUE
          /\ done' = [done EXCEPT !.pr = @ + 1]
          /\ Return("ok", "")
       \/ /\ Return("err", "provider error")
          /\ UNCHANGED << prOpen, done >>
    /\ UNCHANGED << meta, ops, exists, cur, local, wt, remote >>

\* ------------------------------------------------------------------ the batch
\* the working copy of this executor is the one at the given path
Mine(dir) == dir = directory(RepositoriesFolder, Repository.name)

\* the batch invokes process() of this executor, once
process_once == run = 0 /\ StartRun

\* the batch invokes process() of the sibling
sibling_process ==
    /\ sibling.pc = "idle"
    /\ sibling' = [sibling EXCEPT !.pc = "clone", !.result = "running"]
    /\ UNCHANGED own

\* the sibling's clone_repository, at the path the sibling was constructed with
sibling_clone_repository ==
    /\ sibling.pc = "clone"
    /\ LET dir == directory(RepositoriesFolder, SiblingRepository.name)
       IN  \/ /\ Mine(dir)
              /\ sibling' = [sibling EXCEPT !.pc = "files"]
              /\ IF exists
                 THEN UNCHANGED << exists, cur, local, wt >>
                 ELSE /\ exists' = TRUE
                      /\ cur' = SiblingRepository.default_branch
                      /\ local' = [b \in {SiblingRepository.default_branch} |->
                                      remote[Repository.default_branch]]
                      /\ wt' = [f \in Files |-> 0]
           \/ /\ ~Mine(dir)
              /\ sibling' = [sibling EXCEPT !.pc = "files", !.exists = TRUE]
              /\ UNCHANGED << exists, cur, local, wt >>
           \/ /\ sibling' = [sibling EXCEPT !.pc = "done", !.result = "err"]
              /\ UNCHANGED << exists, cur, local, wt >>
    /\ UNCHANGED << plan, run, pre, prevOk, ops, remote, prOpen, prCalls, done,
                    pc, cmds, result, error >>

\* the sibling's process_file: fs::write below the sibling's directory
sibling_process_file ==
    /\ sibling.pc = "files"
    /\ LET dir == directory(RepositoriesFolder, SiblingRepository.name)
       IN  \/ /\ Mine(dir)
              /\ wt' = [wt EXCEPT ![1] = 2]
              /\ sibling' = [sibling EXCEPT !.pc = "publish"]
           \/ /\ ~Mine(dir)
              /\ sibling' = [sibling EXCEPT !.pc = "publish", !.text = 1]
              /\ UNCHANGED wt
           \/ /\ sibling' = [sibling EXCEPT !.pc = "done", !.result = "err"]
              /\ UNCHANGED wt
    /\ UNCHANGED << plan, run, pre, prevOk, ops, exists, cur, local, remote,
                    prOpen, prCalls, done, pc, cmds, result, error >>

\* the sibling's commit, push and open_pr: Provider::open_pr with the sibling's
\* repository name
sibling_open_pr ==
    /\ sibling.pc = "publish"
    /\ \/ /\ SiblingRepository.name = Repository.name
          /\ prOpen' = TRUE
          /\ sibling' = [sibling EXCEPT !.pc = "done", !.result = "ok"]
       \/ /\ SiblingRepository.name # Repository.name
          /\ sibling' = [sibling EXCEPT !.pc = "done", !.result = "ok", !.pr = TRUE]
          /\ UNCHANGED prOpen
       \/ /\ sibling' = [sibling EXCEPT !.pc = "done", !.result = "err"]
          /\ UNCHANGED prOpen
    /\ UNCHANGED << plan, run, pre, prevOk, ops, exists, cur, local, wt, remote,
                    prCalls, done, pc, cmds, result, error >>

\* ------------------------------------------------------------------ specification
Next ==
    \/ StartRun
    \/ Interrupt
    \/ clone_repository
    \/ ensure_branch
    \/ ensure_branch_reset
    \/ ensure_branch_checkout
    \/ ensure_branch_pull
    \/ ensure_branch_new
    \/ process_operation
    \/ process_file
    \/ process_operations
    \/ commit_log
    \/ commit
    \/ push
    \/ open_pr_check
    \/ open_pr

Spec == Init /\ [][Next]_vars

\* a batch: this executor and its sibling, each invoked once, their steps
\* interleaved in any order
InitBatch ==
    /\ Init
    /\ plan.pull_request_title = None

NextBatch ==
    \/ process_once
    \/ Interrupt
    \/ clone_repository
    \/ ensure_branch
    \/ ensure_branch_reset
    \/ ensure_branch_checkout
    \/ ensure_branch_pull
    \/ ensure_branch_new
    \/ process_operation
    \/ process_file
    \/ process_operations
    \/ commit_log
    \/ commit
    \/ push
    \/ open_pr_check
    \/ open_pr
    \/ sibling_process
    \/ sibling_clone_repository
    \/ sibling_process_file
    \/ sibling_open_pr

SpecBatch == InitBatch /\ [][NextBatch]_vars

TypeOK ==
    /\ pc \in {"idle", "clone", "branch", "reset", "checkout", "pull", "new", "list",
               "file", "log", "commit", "push", "pr", "open", "done"}
    /\ result \in {"none", "running", "ok", "err", "killed"}
    /\ wt \in Trees
    /\ exists \in BOOLEAN
    /\ run \in 0..MaxRuns

\* ------------------------------------------------------------------ observations
\* number of git commands of the current run with the given subcommand
Git(sub) == Cardinality({i \in 1..Len(cmds) : cmds[i][1] = "git" /\ cmds[i][2] = sub})

\* number of calls of the current run to the given provider method
Calls(method) == Cardinality({i \in 1..Len(cmds) : cmds[i][1] = method})

\* the run has not committed, pushed, queried or opened a pull request
NothingPublished ==
    /\ Git("commit") = 0
    /\ Git("push") = 0
    /\ Calls("is_pr_open") = 0
    /\ Calls("open_pr") = 0

\* process_operations has returned to process()
Returned == pc = "done" /\ result \in {"ok", "err"}

OperationsDone == opIdx > Len(plan.file_operations)

\* ------------------------------------------------------------------ C1
\* C1: a run in which no processor chain changes a matched file
\* (process_operations returns false) returns success, and at no point has it
\* issued git commit, git push, is_pr_open or open_pr.
C1_EarlyExit ==
    /\ ~files_changed => NothingPublished
    /\ (Returned /\ OperationsDone /\ ~files_changed) => result = "ok"

\* a run that matched and processed files, changed none and returned
C1_Witness ==
    /\ pc = "done" /\ result = "ok"
    /\ OperationsDone /\ ~files_changed
    /\ \E i \in 1..Len(plan.file_operations) :
          plan.file_operations[i].pattern # {}

\* ------------------------------------------------------------------ C2
\* the commands that only inspect the working copy
ReadOnly == { <<"git", "branch", "--show-current">>,
              <<"git", "log", "--format=%B", "-n", "1">> }

OnlyInspections == \A i \in 1..Len(cmds) : cmds[i] \in ReadOnly

\* the run is finished and no processor chain changed a matched file
NoOpRun == pc = "done" /\ result = "ok" /\ ~files_changed

\* C2 as stated: whatever state a no-op run starts from, it issues read-only
\* inspections only and leaves working tree, current branch, local branches and
\* remote as it found them.
C2_Untouched == NoOpRun => (OnlyInspections /\ Snapshot = pre)

\* C2 as amended: while no processor chain has changed a file the remote is as
\* the run found it and nothing is committed, pushed or sent to the provider;
\* and when the run found the working copy on the plan's branch, the only
\* command issued is git branch --show-current and the directory, the current
\* branch, the local branches and the working tree are as the run found them.
C2_UntouchedOnBranch ==
    ~files_changed =>
        /\ remote = pre.remote
        /\ NothingPublished
        /\ (pre.exists /\ pre.cur = plan.branch_name) =>
              /\ \A i \in 1..Len(cmds) : cmds[i] = <<"git", "branch", "--show-current">>
              /\ Snapshot = pre

\* a no-op run that found a modified working tree on the plan's branch
C2_Witness ==
    /\ NoOpRun
    /\ pre.exists /\ pre.cur = plan.branch_name
    /\ pre.wt # Tip(pre.local[pre.cur]).tree
    /\ cmds = << <<"git", "branch", "--show-current">> >>

\* ------------------------------------------------------------------ C3
\* the current run follows a run that returned Ok
SecondRun == prevOk /\ pc # "idle"

\* the run has not cloned, re-derived the branch, committed or opened a pull request
NothingRedone ==
    /\ Git("clone") = 0
    /\ Git("reset") = 0
    /\ Git("checkout") = 0
    /\ Git("pull") = 0
    /\ Git("commit") = 0
    /\ Calls("open_pr") = 0

\* C3 as stated: a run that follows a successful run issues no clone, no
\* reset/checkout/pull/checkout -b, no commit and no open_pr, and leaves the
\* working copy, the local history and the remote unchanged.
C3_Idempotent == SecondRun => (NothingRedone /\ Snapshot = pre)

\* C3 as amended: such a run issues none of those commands and leaves the
\* directory, the current branch, the local branches and the remote unchanged;
\* the working tree is unchanged as long as no processor chain changes a file
\* in this run (a chain that changes its own output rewrites the file).
C3_IdempotentHistory ==
    SecondRun =>
        /\ NothingRedone
        /\ exists = pre.exists /\ cur = pre.cur
        /\ local = pre.local /\ remote = pre.remote
        /\ ~files_changed => wt = pre.wt

\* a second run finished after a first run that committed, pushed and opened
\* the pull request, and in which a chain changed a file again
C3_Witness ==
    /\ SecondRun /\ pc = "done" /\ result = "ok"
    /\ done.commit = 1 /\ done.pr = 1
    /\ files_changed

\* ------------------------------------------------------------------ C4
\* the first line of a commit message
RECURSIVE FirstLine(_)
FirstLine(msg) ==
    IF msg = << >> \/ Head(msg) = NL THEN << >>
    ELSE <<Head(msg)>> \o FirstLine(Tail(msg))

\* the commit carries the plan's commit message
Carries(c) == FirstLine(c.msg) = plan.git_message

Default == Repository.default_branch

\* what the plan's operations make of the default branch's files
Planned == all_operations(plan.file_operations,
               [tree |-> Tip(pre.remote[Default]).tree, changed |-> FALSE])

\* the first run, on a repository with no working copy, no pull request and a
\* default branch that does not carry the plan's message, has returned Ok
\* after a processor chain changed a file
FirstRunDone ==
    /\ run = 1 /\ ~pre.exists /\ ~Carries(Tip(pre.remote[Default]))
    /\ pc = "done" /\ result = "ok" /\ files_changed

\* C4: such a run has written the transformed content, created exactly one
\* commit with the plan's message on the plan's branch, on top of the default
\* branch, pushed that branch and called open_pr exactly once.
C4_FirstRun ==
    FirstRunDone =>
        /\ wt = Planned.tree
        /\ cur = plan.branch_name
        /\ local[plan.branch_name] =
              Append(pre.remote[Default], [msg |-> plan.git_message, tree |-> wt])
        /\ Git("commit") = 1 /\ done.commit = 1
        /\ plan.branch_name \in DOMAIN remote
        /\ remote[plan.branch_name] = local[plan.branch_name]
        /\ Git("push") = 1
        /\ Calls("open_pr") = 1 /\ done.pr = 1 /\ prOpen

\* the first run finished on a plan of two operations
C4_Witness == FirstRunDone /\ Len(plan.file_operations) = 2

\* ------------------------------------------------------------------ C5
\* the plan's change is committed on the plan's branch, the branch is pushed
\* and a pull request is open
Converged ==
    /\ plan.branch_name \in DOMAIN local
    /\ Carries(Tip(local[plan.branch_name]))
    /\ Tip(local[plan.branch_name]).tree = wt
    /\ plan.branch_name \in DOMAIN remote
    /\ remote[plan.branch_name] = local[plan.branch_name]
    /\ prOpen

\* some processor chain changes a file of the default branch
PlanChangesFiles ==
    all_operations(plan.file_operations,
        [tree |-> Tip(remote[Default]).tree, changed |-> FALSE]).changed

\* C5: for a plan that changes a file, on a default branch that does not carry
\* the plan's message, a run that follows an interrupted or failed run and
\* itself completes without a failure leaves the change committed on the
\* plan's branch, the branch pushed and a pull request open.
C5_Resumable ==
    ( /\ PlanChangesFiles /\ ~Carries(Tip(remote[Default]))
      /\ run >= 2 /\ ~prevOk
      /\ pc = "done" /\ result = "ok" ) => Converged

\* ------------------------------------------------------------------ C6
RECURSIVE Carrying(_)
\* number of commits of a history that carry the plan's message
Carrying(h) ==
    IF h = << >> THEN 0
    ELSE (IF Carries(Head(h)) THEN 1 ELSE 0) + Carrying(Tail(h))

\* the commits a branch holds beyond those of the default branch
OwnCommits(h) == SubSeq(h, CommonPrefixLen(h, remote[Default]) + 1, Len(h))

PushArgs == <<"git", "push", "-u", "-f", "origin", plan.branch_name>>

\* positions in the run's log of a command
At(argv) == {i \in 1..Len(cmds) : cmds[i] = argv}

Queries == {i \in 1..Len(cmds) : cmds[i][1] = "is_pr_open"}

\* C7: git commit is never issued while the latest commit's first line is the
\* plan's message; and a run that passes the commit stage, whether it committed
\* or skipped, force-pushes the plan's branch with upstream tracking exactly
\* once and, unless the push fails, queries is_pr_open exactly once, after it.
C7_GuardThenPush ==
    /\ pc = "commit" => ~Carries(Tip(local[cur]))
    /\ pc = "push" => Git("push") = 0 /\ Git("log") = 1
    /\ Git("push") = Cardinality(At(PushArgs)) /\ Git("push") <= 1
    /\ Calls("is_pr_open") <= 1
    /\ \A i \in Queries : At(PushArgs) = {i - 1}
    /\ (pc = "done" /\ result = "ok" /\ files_changed) =>
          /\ Git("push") = 1
          /\ Calls("is_pr_open") = 1
    /\ (Returned /\ Git("push") = 1 /\ Calls("is_pr_open") = 0) =>
          error = "failed to push changes"

\* a run that skipped the commit (the latest commit's first line was the
\* plan's message, followed by further lines) and still pushed and queried
C7_Witness ==
    /\ pc = "done" /\ result = "ok" /\ files_changed
    /\ Git("commit") = 0 /\ Git("push") = 1 /\ Calls("is_pr_open") = 1
    /\ Tip(local[cur]).msg # plan.git_message
    /\ Carries(Tip(local[cur]))

\* ------------------------------------------------------------------ C8
Opens == {i \in 1..Len(cmds) : cmds[i][1] = "open_pr"}

\* C8: in a run, is_pr_open(repository name, plan branch) is queried at most
\* once and before any open_pr; open_pr is never called after the answer true,
\* is called exactly once after the answer false, and never more than once.
C8_PullRequestGuard ==
    /\ Calls("is_pr_open") <= 1
    /\ Calls("open_pr") <= 1
    /\ \A i \in Opens : i > 1 /\ cmds[i - 1] = Query("false")
    /\ \A i \in Queries :
          /\ cmds[i][2] = Repository.name /\ cmds[i][3] = plan.branch_name
          /\ cmds[i] = Query("true") => (Opens = {} /\ pc = "done" /\ result = "ok")
          /\ (cmds[i] = Query("false") /\ Returned) => Opens = {i + 1}
          /\ (cmds[i] = Query("false") /\ ~Returned /\ pc # "done") => pc = "open"
    /\ pc = "open" => (Queries # {} /\ Opens = {})

\* a run reached the pull-request stage with the pull request already open
C8_Witness ==
    /\ pc = "done" /\ result = "ok"
    /\ \E i \in Queries : cmds[i] = Query("true")
    /\ Git("push") = 1

\* ------------------------------------------------------------------ C9
\* C9: every open_pr call names the executor's repository, the repository's
\* default branch as base, the plan's branch as head, the plan's title when
\* one is set and the plan's commit message otherwise, and the plan's body
\* (none when the plan has none).
C9_PullRequestArguments ==
    \A i \in 1..Len(prCalls) :
        /\ prCalls[i].repository = Repository.name
        /\ prCalls[i].base = Repository.default_branch
        /\ prCalls[i].head = plan.branch_name
        /\ plan.pull_request_title # None =>
              prCalls[i].title = <<plan.pull_request_title>>
        /\ plan.pull_request_title = None => prCalls[i].title = plan.git_message
        /\ prCalls[i].body = plan.pull_request_body

\* open_pr was called for a plan with a title and no body
C9_Witness ==
    /\ Len(prCalls) = 1 /\ Calls("open_pr") = 1
    /\ plan.pull_request_title = "T" /\ plan.pull_request_body = None
    /\ prCalls[1].title = <<"T">>

\* ------------------------------------------------------------------ C10
\* the branch ensure_branch finds checked out
FoundBranch == IF pre.exists THEN pre.cur ELSE Default

\* ensure_branch has just returned Ok
BranchEnsured == pc = "list" /\ opIdx = 1

\* the commands of the run after clone_repository's
AfterClone == IF pre.exists THEN cmds ELSE Tail(cmds)

\* C10: when ensure_branch finds another branch than the plan's checked out
\* and returns Ok, it has issued git branch --show-current and then exactly
\* reset --hard, checkout <default branch>, pull -r, checkout -b <plan branch>;
\* the working copy is then on the plan's branch, whose history is that of the
\* default branch as pulled from the remote, with no local modification left.
C10_BranchFromDefault ==
    (BranchEnsured /\ FoundBranch # plan.branch_name) =>
        /\ AfterClone = << <<"git", "branch", "--show-current">>,
                           <<"git", "reset", "--hard">>,
                           <<"git", "checkout", Default>>,
                           <<"git", "pull", "-r">>,
                           <<"git", "checkout", "-b", plan.branch_name>> >>
        /\ cur = plan.branch_name
        /\ local[Default] = remote[Default]
        /\ local[plan.branch_name] = local[Default]
        /\ Tip(local[plan.branch_name]) = Tip(remote[Default])
        /\ wt = Tip(remote[Default]).tree

\* ensure_branch returned after finding another plan's branch checked out,
\* with a modified file and a default branch behind the remote's
C10_Witness ==
    /\ BranchEnsured /\ pre.exists /\ pre.cur = OtherBranch
    /\ pre.wt # Tip(pre.local[pre.cur]).tree
    /\ pre.local[Default] # pre.remote[Default]
    /\ cur = plan.branch_name

\* ------------------------------------------------------------------ C11
\* position of a command in the order process() prescribes; the file
\* operations, which issue no command, stand between 6 and 8
Stage(argv) ==
    CASE argv[1] = "is_pr_open" -> 11
      [] argv[1] = "open_pr"    -> 12
      [] argv[2] = "clone"      -> 1
      [] argv[2] = "branch"     -> 2
      [] argv[2] = "reset"      -> 3
      [] argv[2] = "checkout"   -> IF Len(argv) = 3 THEN 4 ELSE 6
      [] argv[2] = "pull"       -> 5
      [] argv[2] = "log"        -> 8
      [] argv[2] = "commit"     -> 9
      [] OTHER                  -> 10

\* the (operation, file) pairs of the plan from operation k on, in plan order
\* and, within an operation, in the order list_files returns
RECURSIVE Matched(_, _)
Matched(operations, k) ==
    IF k > Len(operations)
    THEN << >>
    ELSE LET fs == list_files(operations[k].pattern)
         IN  [i \in 1..Len(fs) |-> <<k, fs[i]>>] \o Matched(operations, k + 1)

ProcessedPairs == [i \in 1..Len(processed) |-> <<processed[i].op, processed[i].file>>]

Issued(stage) == \E i \in 1..Len(cmds) : Stage(cmds[i]) = stage

\* the commands of the four steps that re-derive the branch
Rederive == {3, 4, 5, 6}

\* C11: within one run the stages run in the order clone, branch
\* reconciliation, every file operation in plan order, commit, push, pull
\* request; none runs twice or out of order, and none starts before the one
\* before it has completed: the branch is listed only in an existing working
\* copy, files are processed only on the plan's branch, the commit stage starts
\* only after every matched file of every operation was processed, the push
\* only with the plan's commit at the tip, the pull-request stage only with the
\* branch pushed, and the pull request is opened only after the query.
C11_StageOrder ==
    LET stages == [i \in 1..Len(cmds) |-> Stage(cmds[i])]
        last == IF cmds = << >> THEN 0 ELSE stages[Len(cmds)]
        branched == \E i \in 1..Len(cmds) : stages[i] = 2
        matched == Matched(plan.file_operations, 1)
    IN  /\ \A i \in 2..Len(cmds) :
              /\ stages[i - 1] < stages[i]
              /\ stages[i] \in Rederive \cup {9, 12} => stages[i - 1] = stages[i] - 1
        /\ IsPrefix(ProcessedPairs, matched)
        /\ last >= 2 => (exists /\ (~pre.exists => stages[1] = 1))
        /\ (processed # << >> \/ pc \in {"list", "file"}) =>
              (branched /\ cur = plan.branch_name)
        /\ pc \in {"list", "file"} => last < 8
        /\ last >= 8 =>
              (branched /\ ProcessedPairs = matched /\ files_changed)
        /\ last >= 10 =>
              (Issued(8) /\ Carries(Tip(local[plan.branch_name])))
        /\ last >= 11 =>
              (Issued(10) /\ plan.branch_name \in DOMAIN remote
                          /\ remote[plan.branch_name] = local[plan.branch_name])

\* a run that went through every stage: cloned, re-derived the branch, processed
\* the files of two operations, committed, pushed, queried and opened
C11_Witness ==
    /\ pc = "done"
    /\ result = "ok"
    /\ Len(cmds) = 11
    /\ Len(plan.file_operations) = 2
    /\ Len(processed) > 2

\* ------------------------------------------------------------------ C12
\* the stages whose command or call can have produced the error
FailedStages ==
    CASE error = "failed to clone repository"        -> {1}
      [] error = "failed to list branch"             -> {2}
      [] error = "failed to reset branch"            -> {3}
      [] error = "failed to checkout default branch" -> {4}
      [] error = "failed to pull changes"            -> {5}
      [] error = "failed to checkout new branch"     -> {6}
      [] error = "failed to run command"             -> {8}
      [] error = "failed to commit changes"          -> {9}
      [] error = "failed to push changes"            -> {10}
      [] error = "provider error"                    -> {11, 12}
      [] OTHER                                       -> {}

\* the error came from the file operations, which issue no command
FileFailure == error \in {"glob error", "io error"}

\* C12: when a command, a file read or write, or a provider call fails,
\* process() has returned an error and the run is over; the failed operation is
\* the last one the run issued (nothing of a later stage follows it), and no
\* command, provider call or file of an operation was attempted twice in the
\* run.
C12_AbortWithoutRetry ==
    /\ error # "" <=> result = "err"
    /\ result = "err" => pc = "done"
    /\ (result = "err" /\ ~FileFailure) =>
          (cmds # << >> /\ Stage(cmds[Len(cmds)]) \in FailedStages)
    /\ (result = "err" /\ FileFailure) =>
          (~(\E i \in 1..Len(cmds) : Stage(cmds[i]) >= 8)
           /\ opIdx <= Len(plan.file_operations))
    /\ Cardinality({cmds[i] : i \in 1..Len(cmds)}) = Len(cmds)
    /\ Cardinality(Queries) <= 1
    /\ Cardinality({ProcessedPairs[i] : i \in 1..Len(processed)}) = Len(processed)

\* git commit failed after the files were written: the run ended there
C12_Witness ==
    /\ result = "err"
    /\ error = "failed to commit changes"
    /\ processed # << >>
    /\ pre.exists

\* ------------------------------------------------------------------ C14
\* Pn(...P2(P1(x))...), built from the outermost processor inwards
RECURSIVE Composed(_, _)
Composed(processors, x) ==
    IF processors = << >> THEN x
    ELSE process(processors[Len(processors)],
                 Composed(SubSeq(processors, 1, Len(processors) - 1), x))

Chain(e) == plan.file_operations[e.op].processors

\* C14: for every processed file with original content x and processors
\* [P1, ..., Pn], the text compared with x, and written when it differs, is
\* Pn(...P2(P1(x))...); for [A, B] it is B(A(x)).
C14_ProcessorOrder ==
    /\ \A i \in 1..Len(processed) :
          LET e == processed[i]
          IN  /\ e.new = Composed(Chain(e), e.old)
              /\ Len(Chain(e)) = 2 =>
                    e.new = process(Chain(e)[2], process(Chain(e)[1], e.old))
              /\ e.wrote = (e.old # Composed(Chain(e), e.old))
    /\ processed # << >> =>
          LET e == processed[Len(processed)]
          IN  e.wrote => wt[Resolve(e.file)] = Composed(Chain(e), e.old)

\* a file was written by a chain [A, B] for which A(B(x)) differs from B(A(x))
C14_Witness ==
    \E i \in 1..Len(processed) :
        LET e == processed[i]
        IN  /\ Len(Chain(e)) = 2
            /\ e.wrote
            /\ process(Chain(e)[1], process(Chain(e)[2], e.old)) # e.new

\* ------------------------------------------------------------------ C15
\* C15: list_files returns only regular files: no directory and no symbolic
\* link, to a file or to a directory, is listed, read or transformed.
C15_RegularFilesOnly ==
    /\ \A i \in 1..Len(files) : Kind(files[i]) = "file"
    /\ \A i \in 1..Len(processed) : Kind(processed[i].file) = "file"

\* ------------------------------------------------------------------ C16
\* the messages the stages wrap a failure with
StageMessages ==
    { "failed to clone repository", "failed to list branch", "failed to reset branch",
      "failed to checkout default branch", "failed to pull changes",
      "failed to checkout new branch", "failed to commit changes",
      "failed to push changes" }

\* C16: whatever stage fails, the error process() returns carries a message
\* that identifies the stage.  The text of a provider's own error is not part
\* of this source and is taken here to name the call that failed.
C16_StageIdentified ==
    result = "err" => error \in StageMessages \cup {"provider error"}

\* ------------------------------------------------------------------ C17
\* the files of the tree that process_file was handed, directly or by a link
Targets == {Resolve(processed[i].file) : i \in 1..Len(processed)}

\* the entries of the log before position n that concern file t
Earlier(t, n) == {i \in 1..(n - 1) : Resolve(processed[i].file) = t}

Latest(S) == CHOOSE i \in S : \A j \in S : j <= i

\* the working tree when the file operations start: as found when the plan's
\* branch was checked out, else the default branch's latest commit
StartTree == IF FoundBranch = plan.branch_name
             THEN pre.wt
             ELSE Tip(local[Default]).tree

\* the content of file t before the entry at position n of the log
Before(t, n) == IF Earlier(t, n) = {}
                THEN StartTree[t]
                ELSE processed[Latest(Earlier(t, n))].new

\* C17: process_file writes a file if and only if the chain's final text
\* differs from the text it read, and returns "changed" exactly then; a file
\* that was written holds the final text, and a file that was not written, or
\* not matched, holds what it held before.
C17_WriteOnlyOnDifference ==
    /\ \A i \in 1..Len(processed) :
          LET e == processed[i]
          IN  /\ e.old = Before(Resolve(e.file), i)
              /\ e.wrote <=> e.old # e.new
              /\ e.changed <=> e.wrote
    /\ processed # << >> =>
          \A t \in Files : wt[t] = Before(t, Len(processed) + 1)

\* one run has written a file and left another, whose final text equals its
\* content, unwritten
C17_Witness ==
    \E i, j \in 1..Len(processed) :
        /\ processed[i].wrote /\ processed[i].changed
        /\ ~processed[j].wrote /\ ~processed[j].changed
        /\ Chain(processed[j]) # << "id" >>

\* ------------------------------------------------------------------ C18
\* C18: the flag process_operations returns is the logical "or" of the results
\* process_file returned for the files handled so far, and when the operations
\* are over without a failed read or write every matched file of every
\* operation has been handled, whatever the earlier results were.
C18_AggregateFlag ==
    /\ files_changed <=> \E i \in 1..Len(processed) : processed[i].changed
    /\ OperationsDone => ProcessedPairs = Matched(plan.file_operations, 1)
    /\ (pc = "log" \/ Issued(8)) => files_changed
    /\ NoOpRun => \A i \in 1..Len(processed) : ~processed[i].changed

\* the operations are over and a file of a later operation was handled after
\* an earlier operation had already reported a change
C18_Witness ==
    /\ OperationsDone
    /\ files_changed
    /\ \E i, j \in 1..Len(processed) :
          /\ processed[i].changed
          /\ processed[i].op < processed[j].op

\* ------------------------------------------------------------------ C19
\* the files this run has written
Written == {Resolve(processed[i].file) : i \in {j \in 1..Len(processed) : processed[j].wrote}}

\* the run returned success after pushing the branch
Published == pc = "done" /\ result = "ok" /\ Issued(10)

\* C19: when a run returns success after the push, every file it has written
\* has, in the commit at the tip of the pushed branch, the content the run left
\* in the working tree: no written change stays uncommitted, also when the
\* commit guard skipped the commit.
C19_PublishedContainsChange ==
    Published =>
        /\ plan.branch_name \in DOMAIN remote
        /\ \A t \in Written : Tip(remote[plan.branch_name]).tree[t] = wt[t]

\* ------------------------------------------------------------------ C20
\* the working tree held no uncommitted change when the file operations started
CleanAtStart == StartTree = Tip(local[plan.branch_name]).tree

\* C20: in a run whose working tree was clean when the file operations
\* started, process_operations returning true means the tree differs from what
\* it was, so that the commit stage is entered with something to commit; also
\* when several operations match the same file.
C20_NetChange ==
    (pc = "log" /\ CleanAtStart) =>
        /\ wt # StartTree
        /\ wt # Tip(local[cur]).tree

====
